---- MODULE Spec2Model ----
(***************************************************************************)
(* Request hedging of httpx_hedged.py: SLOHedgingTransport and             *)
(* PercentileHedgingTransport race an initial transport call against       *)
(* delayed duplicates on an asyncio event loop.                            *)
(*                                                                         *)
(* Time is counted in ticks of 1/FracDen of the unit target_slo is given   *)
(* in, and a hedge fraction is its numerator over FracDen, so that the     *)
(* product target_slo * fraction of the source is an integer of ticks.     *)
(* FracDen is 20, the least denominator at which the default hedge points  *)
(* 0.5, 0.75 and 0.95 are whole numerators.                                *)
(* The event loop runs every ready callback before it sleeps in select():  *)
(* the clock advances only when nothing is ready (Urgent).                 *)
(***************************************************************************)
EXTENDS Integers, Sequences, FiniteSets

\* ---------------------------------------------------------------- bounds
MaxHedges == 2      \* largest max_hedges / longest hedge_points list
MaxSlo == 1         \* largest target_slo
MaxTime == 4        \* the clock advances tick by tick up to here, then from timer to timer
MaxEagerHedges == 1 \* most hedges of a configuration whose delays are all zero
MaxLatency == 2     \* largest latency recorded in a tracker, in the unit of target_slo
SmallWindow == 2    \* the window_size of a tracker that evicts early

\* denominator of the hedge fractions and percentiles
FracDen == 20

\* `[0.5, 0.75, 0.95]`, the points that replace a missing or empty
\* hedge_points argument
DefaultHedgePoints == <<10, 15, 19>>

\* samples an endpoint needs before get_slo trusts its history
MinSamples == 10

\* record calls a tracker takes between two clears
MaxRecords == MinSamples + 1

\* ---------------------------------------------------------------- state
VARIABLES
    kind,           \* "slo": SLOHedgingTransport, "pct": PercentileHedgingTransport
    ctor,           \* who calls __init__, and with which keywords
    arg_hedge_points, \* the hedge_points argument of __init__, kind "pct"
    target_slo,     \* self.target_slo
    hedge_at,       \* self.hedge_at (numerator over FracDen), kind "slo"
    max_hedges,     \* self.max_hedges, kind "slo"
    hedge_points,   \* self.hedge_points (numerators over FracDen), kind "pct"
    pc,             \* where the caller of the transport object is
    exc,            \* the exception in flight in / raised by the call
    completed_task, \* ordinal of the task popped from `done`
    task,           \* state of each asyncio task of the dispatch
    cancelReq,      \* task.cancel() was called on a task that was not done
    now,            \* event-loop clock, in ticks since dispatch start
    startAt,        \* clock at which each task invoked the wrapped transport
    invoked,        \* ordinals of the tasks, in order of transport invocation
    firstSettled,   \* ordinal of the first task whose transport call settled
    firstSettledAt, \* clock at which that call settled
    received,       \* the requests the wrapped transport was called with, in order
    other,          \* a second dispatch on the same transport object and event loop
    window_size,    \* LatencyTracker.window_size
    percentile,     \* LatencyTracker.percentile (numerator over FracDen)
    latencies,      \* LatencyTracker.latencies: endpoint -> recent latencies, oldest first
    recorded,       \* record calls per endpoint since its history was last empty
    request,        \* the request _get_endpoint_key was last applied to
    previous        \* the request it was applied to before that

\* the transport object and its dispatch
dispatcher == <<kind, ctor, arg_hedge_points, target_slo, hedge_at, max_hedges, hedge_points,
                pc, exc, completed_task,
                task, cancelReq, now, startAt, invoked, firstSettled, firstSettledAt,
                received, other>>
tracker == <<window_size, percentile, latencies, recorded>>
requests == <<request, previous>>

vars == <<dispatcher, tracker, requests>>

\* what no step of a dispatch changes: the two transports of
\* httpx_hedged.py hold no tracker, and never record
config == <<kind, ctor, arg_hedge_points, target_slo, hedge_at, max_hedges,
            tracker, requests>>
history == <<startAt, invoked, firstSettled, firstSettledAt, received>>

NoTask == -1
Ordinals == 0..(IF MaxHedges >= Len(DefaultHedgePoints) THEN MaxHedges ELSE Len(DefaultHedgePoints))
HedgeFracs == {0, 1, 2, FracDen}
DoneStates == {"ok", "fail", "cancelled"}
Endpoints == {"a/x", "a/y"}
Latencies == 1..MaxLatency
Percentiles == {FracDen - 2, FracDen - 1}
Methods == {"GET", "POST"}
Hosts == {"a", "b"}
Paths == {"/", "/x", "/x/y"}
Requests == [method : Methods, host : Hosts, path : Paths]
LiveStates == {"created", "sleeping", "woken", "inflight"}

\* ---------------------------------------------------------------- helpers
\* sorted(self.hedge_points): insertion into an ascending sequence
RECURSIVE Insert(_, _)
Insert(x, s) ==
    IF s = <<>> THEN <<x>>
    ELSE IF x <= Head(s) THEN <<x>> \o s
    ELSE <<Head(s)>> \o Insert(x, Tail(s))

\* faulty variant: the points are stored in the order given
sorted_AsGiven(s) == s

RECURSIVE sorted(_)
sorted(s) == IF s = <<>> THEN <<>> ELSE Insert(Head(s), sorted(Tail(s)))

\* `hedge_points or [0.5, 0.75, 0.95]`: None and the empty list are falsy
OrDefault(hp) == IF hp = <<>> THEN DefaultHedgePoints ELSE hp

\* `0 < point < 1` of the validation loop
ValidPoint(p) == 0 < p /\ p < FracDen

\* faulty variant: only the first point is validated
HasInvalidPoint_FirstOnly(hp) == ~ValidPoint(hp[1])

\* the validation loop of PercentileHedgingTransport.__init__ raises
HasInvalidPoint(hp) == \E i \in 1..Len(hp) : ~ValidPoint(hp[i])

\* __init__ of the transport is called with the keyword use_adaptive_slo:
\* by the caller, or by PercentileHedgingClient.__init__, which always
\* passes it. Neither transport's __init__ has such a parameter.
PassesAdaptiveKeyword ==
    \/ ctor = "transport_adaptive"
    \/ ctor = "client" /\ kind = "pct"

\* SLOHedgingTransport._get_hedge_delay
_get_hedge_delay == target_slo * hedge_at

\* PercentileHedgingTransport._get_hedge_delays
_get_hedge_delays == [i \in 1..Len(hedge_points) |-> target_slo * hedge_points[i]]

\* faulty variant: one hedge is scheduled even when max_hedges is 0
NumHedges_AtLeastOne ==
    IF kind = "slo" THEN (IF max_hedges = 0 THEN 1 ELSE max_hedges)
    ELSE Len(hedge_points)

\* number of hedge tasks the dispatch creates
NumHedges == IF kind = "slo" THEN max_hedges ELSE Len(hedge_points)

\* the tasks list of the dispatch: attempt 0 and the hedges
Tasks == 0..NumHedges

\* faulty variant: every hedge sleeps the base delay, hedge_delay instead of hedge_delay * i
Delay_NotMultiplied(i) == IF kind = "slo" THEN _get_hedge_delay ELSE _get_hedge_delays[i]

\* delay handed to delayed_hedge for hedge i
Delay(i) == IF kind = "slo" THEN _get_hedge_delay * i ELSE _get_hedge_delays[i]

IsDone(i) == task[i] \in DoneStates

\* `done` and `pending` as asyncio.wait / the handlers see them
DoneSet == {i \in Tasks : IsDone(i)}
Pending == {i \in Tasks : ~IsDone(i)}

Min(S) == CHOOSE x \in S : \A y \in S : x <= y

\* ---------------------------------------------------------------- initial state
\* the locals of a call of handle_async_request that has not started
Unstarted(at) ==
    [pc |-> at, exc |-> "none", completed_task |-> NoTask,
     task |-> [i \in Ordinals |-> "none"],
     cancelReq |-> [i \in Ordinals |-> FALSE],
     now |-> 0, startAt |-> [i \in Ordinals |-> -1], invoked |-> <<>>,
     firstSettled |-> NoTask, firstSettledAt |-> -1, received |-> <<>>]

\* no tracker exists
NoTracker ==
    /\ window_size = 0
    /\ percentile = 0
    /\ latencies = <<>>
    /\ recorded = [e \in Endpoints |-> 0]

\* no endpoint key has been asked for
NoRequests ==
    /\ request = [method |-> "GET", host |-> "a", path |-> "/"]
    /\ previous = request

\* The hedge_points argument is a list of at most MaxHedges points; the
\* empty sequence stands for the empty list and for None.
Init ==
    /\ kind \in {"slo", "pct"}
    /\ ctor \in {"transport", "transport_adaptive", "client"}
    /\ target_slo \in 0..MaxSlo
    /\ IF kind = "slo"
       THEN /\ hedge_at \in HedgeFracs
            /\ max_hedges \in 0..MaxHedges
            /\ arg_hedge_points = <<>>
            /\ target_slo * hedge_at = 0 => max_hedges <= MaxEagerHedges
       ELSE /\ hedge_at = 0
            /\ max_hedges = 0
            /\ arg_hedge_points \in UNION {[1..n -> HedgeFracs] : n \in 0..MaxHedges}
            /\ target_slo = 0 => Len(OrDefault(arg_hedge_points)) <= MaxEagerHedges
    /\ hedge_points = <<>>
    /\ pc = "ctor"
    /\ exc = "none"
    /\ completed_task = NoTask
    /\ task = [i \in Ordinals |-> "none"]
    /\ cancelReq = [i \in Ordinals |-> FALSE]
    /\ now = 0
    /\ startAt = [i \in Ordinals |-> -1]
    /\ invoked = <<>>
    /\ firstSettled = NoTask
    /\ firstSettledAt = -1
    /\ received = <<>>
    /\ other = Unstarted("none")
    /\ NoTracker
    /\ NoRequests

\* ---------------------------------------------------------------- construction
\* SLOHedgingTransport.__init__ stores its arguments;
\* PercentileHedgingTransport.__init__ replaces a missing or empty
\* hedge_points by the default, validates every point, then sorts.
\* An unexpected keyword is a TypeError before the body of __init__ runs.
Construct ==
    /\ pc = "ctor"
    /\ IF PassesAdaptiveKeyword
       THEN /\ pc' = "ctor_raised"
            /\ exc' = "TypeError"
            /\ UNCHANGED hedge_points
       ELSE IF kind = "slo"
       THEN /\ pc' = "idle"
            /\ UNCHANGED <<hedge_points, exc>>
       ELSE IF HasInvalidPoint(OrDefault(arg_hedge_points))
       THEN /\ pc' = "ctor_raised"
            /\ exc' = "ValueError"
            /\ hedge_points' = OrDefault(arg_hedge_points)
       ELSE /\ pc' = "idle"
            /\ hedge_points' = sorted(OrDefault(arg_hedge_points))
            /\ UNCHANGED exc
    /\ UNCHANGED <<config, completed_task, task, cancelReq, other, now, history>>

\* ---------------------------------------------------------------- dispatch start
\* handle_async_request up to `await asyncio.wait(...)`: create_task for
\* attempt 0 and for one delayed_hedge per hedge; each hedge task starts its
\* asyncio.sleep in its first step.
Dispatch ==
    /\ pc = "idle"
    /\ pc' = "wait"
    /\ task' = [i \in Ordinals |->
                  IF i = 0 THEN "created"
                  ELSE IF i \in Tasks THEN "sleeping" ELSE "none"]
    /\ UNCHANGED <<config, hedge_points, exc, completed_task, cancelReq, other, now, history>>

\* ---------------------------------------------------------------- tasks
\* faulty variant: the wrapped transport is called with another request
Forwarded_Altered == [request EXCEPT !.method = "POST"]

\* the argument of the wrapped transport's call: the `request` of
\* handle_async_request, handed to send_request for attempt 0 and by
\* delayed_hedge
Forwarded == request

\* send_request: `await self.transport.handle_async_request(request)`
send_request(i) ==
    /\ task' = [task EXCEPT ![i] = "inflight"]
    /\ startAt' = [startAt EXCEPT ![i] = now]
    /\ invoked' = Append(invoked, i)
    /\ received' = Append(received, Forwarded)
    /\ UNCHANGED <<config, hedge_points, pc, exc, completed_task, cancelReq, other, now,
                   firstSettled, firstSettledAt>>

\* first step of initial_task
InitialStart ==
    /\ task[0] = "created"
    /\ ~cancelReq[0]
    /\ send_request(0)

\* the timer of asyncio.sleep(delay) expires and schedules the task's wakeup;
\* task.cancel() on a sleeping task cancels the timer. The ready queue is
\* FIFO, so initial_task's first step precedes every hedge task's wakeup.
TimerExpire(i) ==
    /\ i \in Tasks \ {0}
    /\ task[i] = "sleeping"
    /\ ~cancelReq[i]
    /\ task[0] # "created"
    /\ now >= Delay(i)
    /\ task' = [task EXCEPT ![i] = "woken"]
    /\ UNCHANGED <<config, hedge_points, pc, exc, completed_task, cancelReq, other, now, history>>

\* faulty variant: a woken hedge sends its request although it was cancelled
HedgeResume_IgnoresCancel(i) ==
    /\ i \in Tasks \ {0}
    /\ task[i] = "woken"
    /\ send_request(i)

\* delayed_hedge resumes after its sleep: `return await send_request(...)`.
\* A task cancelled before it resumes gets CancelledError thrown at the sleep.
HedgeResume(i) ==
    /\ i \in Tasks \ {0}
    /\ task[i] = "woken"
    /\ ~cancelReq[i]
    /\ send_request(i)

\* faulty variant: a cancelled task swallows CancelledError and stays as it is
CancelAck_Swallowed(i) ==
    /\ i \in Tasks
    /\ task[i] \in LiveStates
    /\ cancelReq[i]
    /\ UNCHANGED vars

\* a cancelled task resumes with CancelledError at its await and ends cancelled
CancelAck(i) ==
    /\ i \in Tasks
    /\ task[i] \in LiveStates
    /\ cancelReq[i]
    /\ task' = [task EXCEPT ![i] = "cancelled"]
    /\ UNCHANGED <<config, hedge_points, pc, exc, completed_task, cancelReq, other, now, history>>

Settle(i, how) ==
    /\ task' = [task EXCEPT ![i] = how]
    /\ firstSettled' = IF firstSettled = NoTask THEN i ELSE firstSettled
    /\ firstSettledAt' = IF firstSettled = NoTask THEN now ELSE firstSettledAt
    /\ UNCHANGED <<config, hedge_points, pc, exc, completed_task, cancelReq, other, now,
                   startAt, invoked, received>>

\* the wrapped transport returns a response: the task finishes with it
TransportReturn(i) ==
    /\ i \in Tasks
    /\ task[i] = "inflight"
    /\ ~cancelReq[i]
    /\ Settle(i, "ok")

\* the wrapped transport raises: the task finishes with the exception
TransportRaise(i) ==
    /\ i \in Tasks
    /\ task[i] = "inflight"
    /\ ~cancelReq[i]
    /\ Settle(i, "fail")

\* ---------------------------------------------------------------- dispatcher
\* faulty variant: task.cancel() for every task of the event loop that is
\* not done, those of the other dispatch included
CancelAll_WholeLoop(S) ==
    /\ cancelReq' = [i \in Ordinals |-> cancelReq[i] \/ i \in S]
    /\ other' = [other EXCEPT !.cancelReq =
                    [i \in Ordinals |-> @[i] \/ other.task[i] \in LiveStates]]

\* task.cancel() for every task of S, a set of tasks of the `tasks` list
\* local to this call: no task of another dispatch is touched
CancelAll(S) ==
    /\ cancelReq' = [i \in Ordinals |-> cancelReq[i] \/ i \in S]
    /\ other' = other

\* completed_task = done.pop(): any member of the set
Popped == DoneSet

\* faulty variant: the handler cancels nothing before it raises
ExceptCancelled_None == {}

\* tasks cancelled by the `except Exception` loop before it first awaits:
\* the gather sits inside the `if not task.done()` of the loop, so the loop
\* cancels the first task that is not done and then waits for all of them
ExceptCancelled == IF Pending = {} THEN {} ELSE {Min(Pending)}

\* `except Exception:` handler, entered with exception e
ExceptHandler(e) ==
    /\ exc' = e
    /\ CancelAll(ExceptCancelled)
    /\ pc' = IF Pending = {} THEN "raised" ELSE "gather_tasks"

\* faulty variant: the success path returns without awaiting the cancelled tasks
AfterCancelPending_NoGather == "returned"

\* pc after the `if pending:` block of the success path has cancelled them
AfterCancelPending == IF Pending = {} THEN "returned" ELSE "gather_pending"

\* faulty variant: the success path awaits the pending tasks without cancelling them
ReturnPath_NoCancel ==
    /\ pc' = AfterCancelPending
    /\ UNCHANGED <<exc, cancelReq, other>>

\* success path of SLOHedgingTransport: cancel pending, gather them, return
ReturnPath ==
    /\ CancelAll(Pending)
    /\ pc' = AfterCancelPending
    /\ UNCHANGED exc

\* the dispatcher resumes from asyncio.wait(FIRST_COMPLETED)
RaceResume ==
    /\ pc = "wait"
    /\ \E c \in Popped :
        /\ completed_task' = c
        /\ CASE task[c] = "fail" -> ExceptHandler("attempt")
             [] task[c] = "cancelled" ->
                    /\ pc' = "raised"
                    /\ exc' = "CancelledError"
                    /\ UNCHANGED <<cancelReq, other>>
             [] task[c] = "ok" /\ kind = "slo" -> ReturnPath
             \* PercentileHedgingTransport reads self.use_adaptive_slo, which
             \* its __init__ never sets: AttributeError, caught by the handler
             [] task[c] = "ok" /\ kind = "pct" -> ExceptHandler("AttributeError")
    /\ UNCHANGED <<config, hedge_points, task, now, history>>

\* `await asyncio.gather(*pending, return_exceptions=True)` completes
GatherPendingDone ==
    /\ pc = "gather_pending"
    /\ Pending = {}
    /\ pc' = IF exc = "CancelledError" THEN "raised" ELSE "returned"
    /\ UNCHANGED <<config, hedge_points, exc, completed_task, task, cancelReq, other, now, history>>

\* `await asyncio.gather(*tasks, return_exceptions=True)` of the handler
\* completes; the loop finds every other task done, and `raise` follows
GatherTasksDone ==
    /\ pc = "gather_tasks"
    /\ Pending = {}
    /\ pc' = "raised"
    /\ UNCHANGED <<config, hedge_points, exc, completed_task, task, cancelReq, other, now, history>>

\* the caller cancels the task running handle_async_request. CancelledError
\* is not an Exception: at asyncio.wait it leaves the call at once, and
\* asyncio.wait does not cancel the tasks it waits for. The future of
\* gather, when cancelled, cancels its children and raises when all are done.
\* The CancelledError reaches the call through the ready queue, behind the
\* first step of initial_task, which create_task queued before the call
\* first suspended.
CallerCancel ==
    /\ pc \in {"wait", "gather_pending", "gather_tasks"}
    /\ task[0] # "created"
    /\ exc # "CancelledError"
    /\ exc' = "CancelledError"
    /\ IF pc = "wait"
       THEN /\ pc' = "raised"
            /\ UNCHANGED <<cancelReq, other>>
       ELSE /\ CancelAll(Pending)
            /\ UNCHANGED pc
    /\ UNCHANGED <<config, hedge_points, completed_task, task, now, history>>

\* ---------------------------------------------------------------- clock
\* something is in the ready queue of the event loop
Urgent ==
    \/ pc \in {"ctor", "idle"}
    \/ pc = "wait" /\ DoneSet # {}
    \/ pc \in {"gather_pending", "gather_tasks"} /\ Pending = {}
    \/ \E i \in Tasks :
        \/ task[i] \in {"created", "woken"}
        \/ task[i] = "sleeping" /\ (cancelReq[i] \/ now >= Delay(i))

\* the hedges asleep on their timers
Sleepers == {i \in Tasks \ {0} : task[i] = "sleeping"}

\* The loop sleeps in select() while only timers and transport calls are
\* outstanding: the clock moves on by one tick, or to the expiry of the
\* nearest timer.
Tick ==
    /\ ~Urgent
    /\ Pending # {}
    /\ \/ now < MaxTime /\ now' = now + 1
       \/ Sleepers # {} /\ now' = Min({Delay(i) : i \in Sleepers})
    /\ UNCHANGED <<config, hedge_points, pc, exc, completed_task, task, cancelReq, other, history>>

Next ==
    \/ Construct
    \/ Dispatch
    \/ InitialStart
    \/ \E i \in Ordinals : TimerExpire(i)
    \/ \E i \in Ordinals : HedgeResume(i)
    \/ \E i \in Ordinals : CancelAck(i)
    \/ \E i \in Ordinals : TransportReturn(i)
    \/ \E i \in Ordinals : TransportRaise(i)
    \/ RaceResume
    \/ GatherPendingDone
    \/ GatherTasksDone
    \/ CallerCancel
    \/ Tick

Spec == Init /\ [][Next]_vars

\* ---------------------------------------------------------------- fair scheduling
\* The event loop runs every ready callback and fires every due timer, every
\* call of the wrapped transport settles, and the clock advances while
\* nothing is ready. The caller is not obliged to cancel.
Fairness ==
    /\ WF_vars(InitialStart)
    /\ \A i \in Ordinals :
        /\ WF_vars(TimerExpire(i))
        /\ WF_vars(HedgeResume(i))
        /\ WF_vars(CancelAck(i))
        /\ WF_vars(TransportReturn(i) \/ TransportRaise(i))
    /\ WF_vars(RaceResume)
    /\ WF_vars(GatherPendingDone)
    /\ WF_vars(GatherTasksDone)
    /\ WF_vars(Tick)

\* an SLOHedgingTransport whose last hedge is due within the clock's range
LiveInit ==
    /\ Init
    /\ kind = "slo"
    /\ ctor = "transport"
    /\ Delay(max_hedges) <= MaxTime

LiveSpec == LiveInit /\ [][Next]_vars /\ Fairness

\* ---------------------------------------------------------------- two dispatches
\* Two calls of handle_async_request run on one SLOHedgingTransport and one
\* event loop. The variables of a dispatch hold one of them and `other` the
\* second; Switch turns to the second, so that both run the same steps in
\* any interleaving. Each call counts its clock from its own start.
Switch ==
    /\ other.pc # "none"
    /\ other' = [pc |-> pc, exc |-> exc, completed_task |-> completed_task,
                 task |-> task, cancelReq |-> cancelReq, now |-> now,
                 startAt |-> startAt, invoked |-> invoked,
                 firstSettled |-> firstSettled, firstSettledAt |-> firstSettledAt,
                 received |-> received]
    /\ pc' = other.pc
    /\ exc' = other.exc
    /\ completed_task' = other.completed_task
    /\ task' = other.task
    /\ cancelReq' = other.cancelReq
    /\ now' = other.now
    /\ startAt' = other.startAt
    /\ invoked' = other.invoked
    /\ firstSettled' = other.firstSettled
    /\ firstSettledAt' = other.firstSettledAt
    /\ received' = other.received
    /\ UNCHANGED <<config, hedge_points>>

\* the transport is constructed, with one hedge at a positive delay, and is
\* about to be called twice
PairInit ==
    /\ kind = "slo"
    /\ ctor = "transport"
    /\ target_slo = 1
    /\ hedge_at = 1
    /\ max_hedges = 1
    /\ arg_hedge_points = <<>>
    /\ hedge_points = <<>>
    /\ pc = "idle"
    /\ exc = "none"
    /\ completed_task = NoTask
    /\ task = [i \in Ordinals |-> "none"]
    /\ cancelReq = [i \in Ordinals |-> FALSE]
    /\ now = 0
    /\ startAt = [i \in Ordinals |-> -1]
    /\ invoked = <<>>
    /\ firstSettled = NoTask
    /\ firstSettledAt = -1
    /\ received = <<>>
    /\ other = Unstarted("idle")
    /\ NoTracker
    /\ NoRequests

PairNext ==
    \/ Dispatch
    \/ InitialStart
    \/ \E i \in Ordinals : TimerExpire(i)
    \/ \E i \in Ordinals : HedgeResume(i)
    \/ \E i \in Ordinals : CancelAck(i)
    \/ \E i \in Ordinals : TransportReturn(i)
    \/ \E i \in Ordinals : TransportRaise(i)
    \/ RaceResume
    \/ GatherPendingDone
    \/ GatherTasksDone
    \/ CallerCancel
    \/ Tick
    \/ Switch

\* a step the event loop, the clock or the wrapped transport owes a call
LoopStep ==
    \/ Dispatch
    \/ InitialStart
    \/ \E i \in Ordinals : TimerExpire(i)
    \/ \E i \in Ordinals : HedgeResume(i)
    \/ \E i \in Ordinals : CancelAck(i)
    \/ \E i \in Ordinals : TransportReturn(i)
    \/ \E i \in Ordinals : TransportRaise(i)
    \/ RaceResume
    \/ GatherPendingDone
    \/ GatherTasksDone
    \/ Tick

\* fair scheduling of both calls: the event loop turns to each of them
\* again and again, and while steps are owed, steps are taken. A call takes
\* finitely many steps, so neither call can be passed over for ever.
PairFairness ==
    /\ WF_vars(Switch)
    /\ SF_vars(LoopStep)

PairSpec == PairInit /\ [][PairNext]_vars /\ PairFairness

\* ---------------------------------------------------------------- LatencyTracker
\* httpx_hedged.LatencyTracker as test_httpx_hedged.py imports and uses it.
\* httpx_hedged.py does not define the class: its operations are those of
\* its specification (record, the percentile query get_slo, clear).

\* the history of an endpoint; one never recorded has none
Samples(endpoint) ==
    IF endpoint \in DOMAIN latencies THEN latencies[endpoint] ELSE <<>>

RECURSIVE SumOf(_, _)
SumOf(f, S) ==
    IF S = {} THEN 0
    ELSE LET x == CHOOSE y \in S : TRUE IN f[x] + SumOf(f, S \ {x})

\* faulty variant: a full history keeps growing
Push_NoEvict(w, latency) == Append(w, latency)

\* append to a history; a full one drops its oldest entry first
Push(w, latency) ==
    IF Len(w) >= window_size THEN Tail(w) \o <<latency>> ELSE Append(w, latency)

\* LatencyTracker.record(endpoint, latency)
record(endpoint, latency) ==
    /\ SumOf(recorded, Endpoints) < MaxRecords
    /\ latencies' = [e \in DOMAIN latencies \cup {endpoint} |->
                        IF e = endpoint THEN Push(Samples(e), latency)
                        ELSE latencies[e]]
    /\ recorded' = [recorded EXCEPT ![endpoint] = @ + 1]
    /\ UNCHANGED <<window_size, percentile, dispatcher, requests>>

\* rank ceil(percentile * n) of the percentile among n sorted samples
Rank(n) == (percentile * n + FracDen - 1) \div FracDen

\* faulty variant: the query computes from any non-empty history
get_slo_NoMinimum(endpoint, default) ==
    LET w == Samples(endpoint)
    IN  IF Len(w) < 1 THEN default ELSE sorted(w)[Rank(Len(w))]

\* LatencyTracker.get_slo(endpoint, default)
get_slo(endpoint, default) ==
    LET w == Samples(endpoint)
    IN  IF Len(w) < MinSamples THEN default ELSE sorted(w)[Rank(Len(w))]

\* LatencyTracker.clear(endpoint)
clear(endpoint) ==
    /\ endpoint \in DOMAIN latencies
    /\ latencies' = [e \in DOMAIN latencies \ {endpoint} |-> latencies[e]]
    /\ recorded' = [recorded EXCEPT ![endpoint] = 0]
    /\ UNCHANGED <<window_size, percentile, dispatcher, requests>>

\* LatencyTracker.clear()
clear_all ==
    /\ DOMAIN latencies # {}
    /\ latencies' = <<>>
    /\ recorded' = [e \in Endpoints |-> 0]
    /\ UNCHANGED <<window_size, percentile, dispatcher, requests>>

\* LatencyTracker(window_size, percentile), beside an SLOHedgingTransport
\* constructed with a positive target_slo and a valid hedge_at
TrackerCreated(windows) ==
    /\ kind = "slo"
    /\ ctor = "transport"
    /\ target_slo = MaxSlo
    /\ hedge_at = FracDen - 1
    /\ max_hedges = 1
    /\ arg_hedge_points = <<>>
    /\ hedge_points = <<>>
    /\ pc = "idle"
    /\ exc = "none"
    /\ completed_task = NoTask
    /\ task = [i \in Ordinals |-> "none"]
    /\ cancelReq = [i \in Ordinals |-> FALSE]
    /\ now = 0
    /\ startAt = [i \in Ordinals |-> -1]
    /\ invoked = <<>>
    /\ firstSettled = NoTask
    /\ firstSettledAt = -1
    /\ received = <<>>
    /\ other = Unstarted("none")
    /\ window_size \in windows
    /\ percentile \in Percentiles
    /\ latencies = <<>>
    /\ recorded = [e \in Endpoints |-> 0]
    /\ NoRequests

\* a tracker of a small window, used for several endpoints
TrackerInit == TrackerCreated(1..SmallWindow)

TrackerNext ==
    \/ \E e \in Endpoints, l \in Latencies : record(e, l)
    \/ \E e \in Endpoints : clear(e)
    \/ clear_all

TrackerSpec == TrackerInit /\ [][TrackerNext]_vars

\* a tracker whose window takes MinSamples samples, learning one endpoint
\* while the others are never seen
LearnedEndpoint == "a/x"

LearnedInit == TrackerCreated({MinSamples})

LearnedNext ==
    \/ \E l \in Latencies : record(LearnedEndpoint, l)
    \/ clear(LearnedEndpoint)

LearnedSpec == LearnedInit /\ [][LearnedNext]_vars

\* ---------------------------------------------------------------- endpoint key
\* faulty variant: the method is part of the key
_get_endpoint_key_WithMethod(r) == r.method \o r.host \o r.path

\* PercentileHedgingTransport._get_endpoint_key: f"{request.url.host}{request.url.path}"
_get_endpoint_key(r) == r.host \o r.path

\* a PercentileHedgingTransport, constructed, is handed its first request
KeyInit ==
    /\ kind = "pct"
    /\ ctor = "transport"
    /\ target_slo = MaxSlo
    /\ hedge_at = 0
    /\ max_hedges = 0
    /\ arg_hedge_points = <<1>>
    /\ hedge_points = <<1>>
    /\ pc = "idle"
    /\ exc = "none"
    /\ completed_task = NoTask
    /\ task = [i \in Ordinals |-> "none"]
    /\ cancelReq = [i \in Ordinals |-> FALSE]
    /\ now = 0
    /\ startAt = [i \in Ordinals |-> -1]
    /\ invoked = <<>>
    /\ firstSettled = NoTask
    /\ firstSettledAt = -1
    /\ received = <<>>
    /\ other = Unstarted("none")
    /\ NoTracker
    /\ request \in Requests
    /\ previous = request

\* endpoint = self._get_endpoint_key(request), for the next request
ResolveEndpoint(r) ==
    /\ previous' = request
    /\ request' = r
    /\ UNCHANGED <<dispatcher, tracker>>

KeyNext == \E r \in Requests : ResolveEndpoint(r)

KeySpec == KeyInit /\ [][KeyNext]_vars

\* ---------------------------------------------------------------- properties
Hedges == 1..NumHedges
Ended == pc \in {"returned", "raised"}
CallerCancelled == exc = "CancelledError"
Calls == Len(invoked)
Started(i) == startAt[i] # -1

\* attempt 0 settled (how) first, strictly before the first hedge delay elapsed
Attempt0FirstBeforeHedges(how) ==
    /\ NumHedges >= 1
    /\ firstSettled = 0
    /\ task[0] = how
    /\ firstSettledAt < Delay(1)

\* C1: a dispatch raises an attempt's failure only when every task has
\* failed or been cancelled: no attempt of a dispatch that raised an
\* attempt's failure has settled successfully.
C1_RaisesOnlyWhenNoneSucceeded ==
    (pc = "raised" /\ exc = "attempt")
        => \A i \in Tasks : task[i] \in {"fail", "cancelled"}

\* C2: when the call has returned a response or raised an attempt's
\* exception, every task it created is done (finished, failed or cancelled
\* with the cancellation acknowledged).
C2_NoTaskLiveAfterExit ==
    (pc = "returned" \/ (pc = "raised" /\ exc = "attempt")) => Pending = {}

C2_Witness ==
    /\ pc = "returned"
    /\ \E i \in Tasks : task[i] = "cancelled" /\ Started(i)
    /\ \E i \in Tasks : task[i] = "cancelled" /\ ~Started(i)

\* C3: when the call ends because its caller cancelled it, every task of
\* the dispatch is done.
C3_CallerCancelLeavesNoTask ==
    (pc = "raised" /\ CallerCancelled) => Pending = {}

\* C4: SLOHedgingTransport, max_hedges >= 1, positive hedge delay, call not
\* cancelled by its caller: if attempt 0 settles successfully before the
\* first hedge delay has elapsed, the transport is invoked exactly once, no
\* hedge starts its attempt, and the call returns attempt 0's response.
C4_FastSuccessNoHedge ==
    (/\ kind = "slo"
     /\ _get_hedge_delay > 0
     /\ Attempt0FirstBeforeHedges("ok")
     /\ ~CallerCancelled)
        => /\ invoked = <<0>>
           /\ \A i \in Hedges : ~Started(i) /\ task[i] \in {"sleeping", "cancelled"}
           /\ Ended => pc = "returned" /\ completed_task = 0

C4_Witness ==
    /\ kind = "slo"
    /\ max_hedges = MaxHedges
    /\ _get_hedge_delay > 0
    /\ Attempt0FirstBeforeHedges("ok")
    /\ firstSettledAt > 0
    /\ pc = "returned"

\* C5: SLOHedgingTransport, max_hedges = 1: hedge 1 invokes the transport
\* exactly when target_slo * hedge_at has elapsed, never sleeping past it;
\* and if hedge 1 settled successfully before attempt 0, the call holds
\* hedge 1's response, has cancelled attempt 0, returns once the
\* cancellation is acknowledged, and the transport was invoked twice.
C5_HedgeWins ==
    (kind = "slo" /\ max_hedges = 1)
        => /\ Started(1) => startAt[1] = target_slo * hedge_at
           /\ (task[1] = "sleeping" /\ ~cancelReq[1]) => now <= target_slo * hedge_at
           /\ (/\ firstSettled = 1
               /\ task[1] = "ok"
               /\ pc # "wait"
               /\ ~CallerCancelled)
                  => /\ completed_task = 1
                     /\ cancelReq[0]
                     /\ pc \in {"gather_pending", "returned"}
                     /\ pc = "returned" => task[0] = "cancelled"
                     /\ invoked = <<0, 1>>

\* C6 (as claimed): if attempt 0 fails before any hedge has fired, no
\* pending hedge is cancelled.
C6_FailureKeepsHedges ==
    (Attempt0FirstBeforeHedges("fail") /\ ~CallerCancelled)
        => \A i \in Hedges : ~cancelReq[i]

\* C6 (amended): if attempt 0 fails before any hedge has fired, the race
\* ends there: the dispatcher takes attempt 0's failure, cancels hedge 1,
\* which never invokes the transport, and raises that failure; no hedge
\* invokes the transport before its own scheduled delay.
C6_FailureEndsRace ==
    (Attempt0FirstBeforeHedges("fail") /\ ~CallerCancelled /\ pc # "wait")
        => /\ completed_task = 0
           /\ exc = "attempt"
           /\ pc \in {"gather_tasks", "raised"}
           /\ cancelReq[1]
           /\ ~Started(1)
           /\ \A i \in Hedges : Started(i) => startAt[i] >= Delay(i)

C6_Witness ==
    /\ Attempt0FirstBeforeHedges("fail")
    /\ firstSettledAt > 0
    /\ pc = "raised"
    /\ exc = "attempt"
    /\ task[1] = "cancelled"

\* C7: a task on which cancel() was called before it invoked the transport
\* never invokes it: no step starts a transport call of a cancelled task.
C7_NoCallAfterCancel ==
    [][\A i \in Ordinals : cancelReq[i] => startAt'[i] = startAt[i]]_vars

\* a hedge cancelled after its timer expired and before it resumed
C7_Witness ==
    \E i \in Hedges : task[i] = "woken" /\ cancelReq[i] /\ Delay(i) > 0

\* C8: SLOHedgingTransport: attempt 0 is the first invocation and starts at
\* dispatch start; hedge i invokes the transport no earlier than
\* i * (target_slo * hedge_at) after dispatch start; with a positive base
\* delay the attempts start in increasing ordinal order.
C8_StartTimes ==
    kind = "slo"
        => /\ Calls > 0 => invoked[1] = 0 /\ startAt[0] = 0
           /\ \A i \in 1..max_hedges :
                Started(i) => startAt[i] >= i * (target_slo * hedge_at)
           /\ target_slo * hedge_at > 0
                => \A m, n \in 1..Calls : m < n => invoked[m] < invoked[n]

C8_Witness ==
    /\ kind = "slo"
    /\ target_slo * hedge_at > 0
    /\ invoked = <<0, 1, 2>>
    /\ startAt[2] = 2 * (target_slo * hedge_at)

\* C9: the attempt whose outcome the dispatcher takes is the one that
\* settled first.
C9_FirstSettledWins ==
    completed_task # NoTask => completed_task = firstSettled

\* C10: when the handler of the failed race waits for the tasks, every task
\* that is not done has been cancelled.
C10_HandlerCancelsAllPending ==
    pc = "gather_tasks" => \A i \in Pending : cancelReq[i]

\* C11: PercentileHedgingTransport: when the attempt the dispatcher takes has
\* settled successfully, the dispatch returns that response, and the
\* transport has been invoked once for attempt 0 and once for each hedge
\* whose delay had elapsed, never twice for one attempt.
C11_PercentileReturnsFirstSuccess ==
    ( /\ kind = "pct"
      /\ Ended
      /\ ~CallerCancelled
      /\ completed_task # NoTask
      /\ task[completed_task] = "ok" )
        => /\ pc = "returned"
           /\ \A m, n \in 1..Calls : m # n => invoked[m] # invoked[n]
           /\ \A i \in Hedges : Started(i) => startAt[i] >= Delay(i)

\* C12: PercentileHedgingTransport: when any value of the hedge_points
\* argument is not strictly between 0 and 1, at whatever position, the
\* construction raises (ValueError from the validation), and for that
\* configuration no task is ever created and the transport is never invoked.
C12_InvalidPointsRejected ==
    ( /\ kind = "pct"
      /\ \E i \in 1..Len(arg_hedge_points) :
            arg_hedge_points[i] <= 0 \/ arg_hedge_points[i] >= FracDen
      /\ pc # "ctor" )
        => /\ pc = "ctor_raised"
           /\ ~PassesAdaptiveKeyword => exc = "ValueError"
           /\ invoked = <<>>
           /\ \A i \in Ordinals : task[i] = "none"

\* the invalid value is the last one, after a valid one
C12_Witness ==
    /\ kind = "pct"
    /\ pc = "ctor_raised"
    /\ exc = "ValueError"
    /\ Len(arg_hedge_points) >= 2
    /\ ValidPoint(arg_hedge_points[1])
    /\ ~ValidPoint(arg_hedge_points[Len(arg_hedge_points)])

\* C13: a transport asked for adaptive mode (use_adaptive_slo = True) is
\* constructed, and each of its dispatches that returns a response has
\* recorded exactly one latency sample in the tracker, while one that fails
\* has recorded none.
C13_AdaptiveDispatchRecordsOnce ==
    (ctor = "transport_adaptive" /\ pc # "ctor")
        => /\ pc # "ctor_raised"
           /\ pc = "returned" => SumOf(recorded, Endpoints) = 1
           /\ (pc = "raised" /\ ~CallerCancelled) => SumOf(recorded, Endpoints) = 0

\* C14: the hedge delay of SLOHedgingTransport is the tracker's SLO for the
\* endpoint times hedge_at: the learned percentile latency once the endpoint
\* has MinSamples samples, target_slo (the default of the query) before.
C14_AdaptiveDelayUsesLearnedSlo ==
    \A e \in Endpoints :
        _get_hedge_delay = get_slo(e, target_slo) * hedge_at

\* the last n entries of a sequence, in order
LastN(w, n) == IF Len(w) <= n THEN w ELSE SubSeq(w, Len(w) - n + 1, Len(w))

\* C15: LatencyTracker: every endpoint's history holds at most window_size
\* entries, exactly window_size once more than window_size values were
\* recorded on it; a record leaves the endpoint with the most recent
\* window_size values in insertion order (the oldest is evicted first) and
\* leaves the history of every other endpoint as it was.
C15_WindowIsFifoPerEndpoint ==
    /\ [](\A e \in Endpoints :
            /\ Len(Samples(e)) <= window_size
            /\ recorded[e] <= window_size => Len(Samples(e)) = recorded[e]
            /\ recorded[e] > window_size => Len(Samples(e)) = window_size)
    /\ [][\A e \in Endpoints, l \in Latencies :
            record(e, l)
                => /\ Samples(e)' = LastN(Samples(e) \o <<l>>, window_size)
                   /\ \A o \in Endpoints \ {e} : Samples(o)' = Samples(o)]_vars

\* a full window has evicted its oldest value while another endpoint holds
\* samples of its own
C15_Witness ==
    /\ window_size = SmallWindow
    /\ recorded["a/x"] > window_size
    /\ Samples("a/x")[window_size] # Samples("a/x")[1]
    /\ Samples("a/y") # <<>>

\* number of samples of a history below / not above a value
Below(w, v) == Cardinality({i \in 1..Len(w) : w[i] < v})
NotAbove(w, v) == Cardinality({i \in 1..Len(w) : w[i] <= v})

\* C16: LatencyTracker.get_slo(endpoint, default) returns default when the
\* endpoint has fewer than 10 samples (none, for an endpoint never seen);
\* with 10 or more it returns the sample of the window at the percentile
\* rank ceil(percentile * n): a recorded value, so not a default that was
\* never recorded.
C16_DefaultBelowMinimum ==
    \A e \in Endpoints, d \in 0..(MaxLatency + 1) :
        LET w == Samples(e)
            v == get_slo(e, d)
            r == (percentile * Len(w) + FracDen - 1) \div FracDen
        IN  /\ Len(w) < 10 => v = d
            /\ Len(w) >= 10
                => /\ \E i \in 1..Len(w) : w[i] = v
                   /\ Below(w, v) < r
                   /\ NotAbove(w, v) >= r
                   /\ d \notin Latencies => v # d

\* the window holds the minimum of samples, of different values, and the
\* query draws the line between them
C16_Witness ==
    /\ Len(Samples(LearnedEndpoint)) = MinSamples
    /\ get_slo(LearnedEndpoint, 0) = MaxLatency
    /\ \E i \in 1..MinSamples : Samples(LearnedEndpoint)[i] < MaxLatency
    /\ Samples(LearnedEndpoint)[MinSamples] < MaxLatency

\* C17: SLOHedgingTransport: a hedge_at outside the open interval (0, 1) or
\* a non-positive target_slo makes the construction fail, so that no such
\* configuration reaches handle_async_request.
C17_InvalidSloConfigRejected ==
    ( /\ kind = "slo"
      /\ hedge_at <= 0 \/ hedge_at >= FracDen \/ target_slo <= 0
      /\ pc # "ctor" )
        => pc = "ctor_raised"

\* how often a value occurs in a list
Count(w, v) == Cardinality({i \in 1..Len(w) : w[i] = v})

\* C18 as stated: PercentileHedgingTransport constructed with valid
\* hedge_points in any order: the stored hedge_points are the values
\* given, sorted ascending; the delays are target_slo * hedge_points[i] in
\* that order, so that hedge i is never due later than hedge i + 1.
C18_StoredIsInputSorted ==
    (kind = "pct" /\ pc \notin {"ctor", "ctor_raised"})
        => /\ Len(hedge_points) = Len(arg_hedge_points)
           /\ \A v \in 0..FracDen : Count(hedge_points, v) = Count(arg_hedge_points, v)
           /\ \A i \in 1..(Len(hedge_points) - 1) :
                /\ hedge_points[i] <= hedge_points[i + 1]
                /\ Delay(i) <= Delay(i + 1)
           /\ \A i \in 1..Len(hedge_points) :
                /\ Delay(i) = target_slo * hedge_points[i]
                /\ Started(i) => startAt[i] >= target_slo * hedge_points[i]

\* C18: PercentileHedgingTransport constructed with a non-empty list of
\* valid hedge_points in any order stores the values given, sorted
\* ascending; constructed with an empty list (or None) it stores
\* [0.5, 0.75, 0.95]. Either way the delays are
\* target_slo * hedge_points[i] in ascending order, so that hedge i is
\* never due later than hedge i + 1.
C18_PointsSortedAscending ==
    (kind = "pct" /\ pc \notin {"ctor", "ctor_raised"})
        => /\ arg_hedge_points # <<>> =>
                /\ Len(hedge_points) = Len(arg_hedge_points)
                /\ \A v \in 0..FracDen :
                        Count(hedge_points, v) = Count(arg_hedge_points, v)
           /\ arg_hedge_points = <<>> => hedge_points = <<10, 15, 19>>
           /\ \A i \in 1..(Len(hedge_points) - 1) :
                /\ hedge_points[i] <= hedge_points[i + 1]
                /\ Delay(i) <= Delay(i + 1)
           /\ \A i \in 1..Len(hedge_points) :
                /\ Delay(i) = target_slo * hedge_points[i]
                /\ Started(i) => startAt[i] >= target_slo * hedge_points[i]

\* the points were given in descending order and the first hedge, due at
\* the smaller delay, has called the transport while the second has not
C18_Witness ==
    /\ kind = "pct"
    /\ Len(arg_hedge_points) = 2
    /\ arg_hedge_points[1] > arg_hedge_points[2]
    /\ Len(hedge_points) = 2
    /\ hedge_points[1] < hedge_points[2]
    /\ target_slo > 0
    /\ Started(1)
    /\ ~Started(2)

\* C19: a client constructed with a valid target_slo and valid hedge
\* fractions is obtained, and its transport carries the values given:
\* PercentileHedgingClient the hedge_points, SLOHedgingClient the hedge_at
\* and max_hedges.
C19_ClientInstallsTransport ==
    ( /\ ctor = "client"
      /\ pc # "ctor"
      /\ target_slo > 0
      /\ kind = "slo" => 0 < hedge_at /\ hedge_at < FracDen
      /\ \A i \in 1..Len(arg_hedge_points) :
            0 < arg_hedge_points[i] /\ arg_hedge_points[i] < FracDen )
        => /\ pc # "ctor_raised"
           /\ kind = "pct" => \A v \in HedgeFracs :
                Count(hedge_points, v) = Count(arg_hedge_points, v)

\* C20: the endpoint key depends only on host and path: two requests of the
\* same host and path get the same key whatever their methods, and two
\* requests of the same host and different paths get different keys.
C20_KeyIsHostAndPath ==
    /\ (request.host = previous.host /\ request.path = previous.path)
            => _get_endpoint_key(request) = _get_endpoint_key(previous)
    /\ (request.host = previous.host /\ request.path # previous.path)
            => _get_endpoint_key(request) # _get_endpoint_key(previous)

\* a POST follows a GET of the same host and path
C20_Witness ==
    /\ previous.method = "GET"
    /\ request.method = "POST"
    /\ request.host = previous.host
    /\ request.path = previous.path
    /\ request.path # "/"

\* C21: SLOHedgingTransport: once handle_async_request has ended the
\* wrapped transport has been invoked at least once; it is never invoked
\* more than max_hedges + 1 times nor twice by one task, and every
\* invocation receives the request handle_async_request was called with.
C21_InvocationsBounded ==
    kind = "slo"
        => /\ Ended => Calls >= 1
           /\ Calls <= max_hedges + 1
           /\ \A m, n \in 1..Calls : m # n => invoked[m] # invoked[n]
           /\ \A m \in 1..Calls : invoked[m] \in 0..max_hedges
           /\ Len(received) = Calls
           /\ \A m \in 1..Calls : received[m] = request

\* every task of a dispatch with hedges has called the transport
C21_Witness ==
    /\ kind = "slo"
    /\ max_hedges = MaxHedges
    /\ Calls = max_hedges + 1
    /\ Ended

\* C22: under fair scheduling, with every transport call settling and every
\* cancelled task acknowledging its cancellation, a dispatch that has
\* started eventually returns or raises, whatever max_hedges is.
C22_DispatchEnds == (pc = "wait") ~> Ended

\* the failed race has ended after its handler waited for a hedge it had
\* not cancelled, which ran to its own outcome
C22_Witness ==
    /\ kind = "slo"
    /\ pc = "raised"
    /\ exc = "attempt"
    /\ max_hedges = MaxHedges
    /\ completed_task = 0
    /\ task[max_hedges] \in {"ok", "fail"}

\* C23: SLOHedgingTransport with max_hedges = 0, call not cancelled by its
\* caller: the wrapped transport is invoked exactly once, with the request
\* of the call, and the call returns when that invocation returns a
\* response and raises its exception when it raises.
C23_NoHedgeIsTransparent ==
    (kind = "slo" /\ max_hedges = 0)
        => /\ Calls <= 1
           /\ (Ended /\ ~CallerCancelled)
                => /\ invoked = <<0>>
                   /\ received = <<request>>
                   /\ completed_task = 0
                   /\ \/ task[0] = "ok" /\ pc = "returned"
                      \/ task[0] = "fail" /\ pc = "raised" /\ exc = "attempt"

\* the only invocation raised and the call has raised
C23_Witness ==
    /\ kind = "slo"
    /\ max_hedges = 0
    /\ task[0] = "fail"
    /\ pc = "raised"
    /\ exc = "attempt"

\* the call held in `other` has ended
OtherEnded == other.pc \in {"returned", "raised"}

\* C24: two dispatches on one SLOHedgingTransport: a step of one dispatch
\* (a settlement, a failure, a cancellation, the cancel loops of either
\* exit path) leaves every task and every cancellation flag of the other as
\* it was; handle_async_request never changes target_slo, hedge_at or
\* max_hedges; and under fair scheduling both calls end, whatever the
\* outcome of the other.
C24_DispatchesIndependent ==
    /\ [][Switch \/ other' = other]_vars
    /\ [][<<target_slo, hedge_at, max_hedges>>' = <<target_slo, hedge_at, max_hedges>>]_vars
    /\ (pc = "wait" /\ other.pc = "wait") ~> (Ended /\ OtherEnded)

\* one call has raised its attempt's failure after cancelling its hedge,
\* while the other call's attempt is in flight and its hedge asleep, neither
\* of them cancelled
C24_Witness ==
    /\ pc = "raised"
    /\ exc = "attempt"
    /\ task[1] = "cancelled"
    /\ other.pc = "wait"
    /\ other.task[0] = "inflight"
    /\ other.task[1] = "sleeping"
    /\ \A i \in Ordinals : ~other.cancelReq[i]

====
